---------------------------- MODULE Spec2Model ----------------------------
(* Model of the Kindle export of ncli (src/src/kindle/export.rs): the       *)
(* export index (ExportIndex / ExportItem), its load and save, check_book  *)
(* with its prompts, and the export_async run that drives them.            *)
EXTENDS Integers, Sequences, FiniteSets, TLC

(***************************************************************************)
(* Bounds of the model.                                                    *)
(***************************************************************************)
\* longest observed listing returned by get_books
MaxListing == 2
\* longest index found on disk before the first modelled run
MaxIndex == 2
\* last second the wall clock reaches
MaxClock == 2
\* number of export runs in one behaviour
MaxRuns == 2
\* number of lines that are no answer the user types in one behaviour
MaxTypos == 2

(***************************************************************************)
(* Book (src/src/kindle/book.rs).  Option<String> is a sequence of length  *)
(* at most one.                                                            *)
(***************************************************************************)
Asins == {"A1", "A2"}

None == <<>>

Some(s) == <<s>>

Attrs == {"title", "subtitle", "author", "image_url", "last_opened_date"}

\* a book as the library page first shows it
BaseBook(a) ==
    [asin |-> a, title |-> IF a = "A1" THEN "T1" ELSE "T2", subtitle |-> None,
     author |-> "Au", image_url |-> "img", last_opened_date |-> "Mon"]

\* the same book after exactly one of its attributes changed upstream
Variant(b, attr) ==
    CASE attr = "title"            -> [b EXCEPT !.title = "Tx"]
      [] attr = "subtitle"         -> [b EXCEPT !.subtitle = Some("Sub")]
      [] attr = "author"           -> [b EXCEPT !.author = "Au2"]
      [] attr = "image_url"        -> [b EXCEPT !.image_url = "img2"]
      [] attr = "last_opened_date" -> [b EXCEPT !.last_opened_date = "Tue"]

\* the books of a library in which the attribute k is the one that changes
BooksChanging(k) == {BaseBook(a) : a \in Asins} \cup {Variant(BaseBook("A1"), k)}

\* books an index written by earlier runs holds
IndexedBooks ==
    {BaseBook(a) : a \in Asins} \cup {Variant(BaseBook("A1"), "last_opened_date")}

SeqsUpTo(S, n) == UNION {[1..k -> S] : k \in 0..n}

\* listings of one or two records of a library in which the attribute k changes
ChangedListings(k) ==
    {<<b>> : b \in BooksChanging(k)} \cup (BooksChanging(k) \X BooksChanging(k))

\* listings get_books can return: of any length when the date a book was last
\* opened is what changes, of one or two records for each other attribute
Listings ==
    SeqsUpTo(BooksChanging("last_opened_date"), MaxListing)
        \cup UNION {ChangedListings(k) : k \in Attrs}

\* the listings followed over several runs
FollowedListings == SeqsUpTo(IndexedBooks, MaxListing)

\* variant: an equality that leaves image_url out
BookEqNoImageUrl(a, b) ==
    /\ a.asin = b.asin
    /\ a.title = b.title
    /\ a.subtitle = b.subtitle
    /\ a.author = b.author
    /\ a.last_opened_date = b.last_opened_date

\* derived PartialEq of Book: every field takes part
BookEq(a, b) ==
    /\ a.asin = b.asin
    /\ a.title = b.title
    /\ a.subtitle = b.subtitle
    /\ a.author = b.author
    /\ a.image_url = b.image_url
    /\ a.last_opened_date = b.last_opened_date

(***************************************************************************)
(* ExportItem and the index file (export.rs 153-182, 301-321).             *)
(***************************************************************************)
\* variant: the new item is built with checked = false
NewItemUnchecked(book, t) == [info |-> book, last_updated_time |-> t, checked |-> FALSE]

\* ExportItem built by check_book for a book that is not in the index
NewItem(book, t) == [info |-> book, last_updated_time |-> t, checked |-> TRUE]

\* variant: a book without subtitle is written with an empty subtitle
SerBookEmptySubtitle(b) ==
    [asin |-> b.asin, title |-> b.title,
     subtitle |-> IF b.subtitle = None THEN "" ELSE b.subtitle[1],
     author |-> b.author, image_url |-> b.image_url,
     last_opened_date |-> b.last_opened_date]

\* serde's view of Book: subtitle is skipped when it is None
SerBook(b) ==
    IF b.subtitle = None
    THEN [asin |-> b.asin, title |-> b.title, author |-> b.author,
          image_url |-> b.image_url, last_opened_date |-> b.last_opened_date]
    ELSE [asin |-> b.asin, title |-> b.title, subtitle |-> b.subtitle[1],
          author |-> b.author, image_url |-> b.image_url,
          last_opened_date |-> b.last_opened_date]

\* variant: a missing subtitle key is read as an empty subtitle
DeBookEmptySubtitle(f) ==
    [asin |-> f.asin, title |-> f.title,
     subtitle |-> IF "subtitle" \in DOMAIN f THEN Some(f.subtitle) ELSE Some(""),
     author |-> f.author, image_url |-> f.image_url,
     last_opened_date |-> f.last_opened_date]

\* a missing subtitle key deserializes to None
DeBook(f) ==
    [asin |-> f.asin, title |-> f.title,
     subtitle |-> IF "subtitle" \in DOMAIN f THEN Some(f.subtitle) ELSE None,
     author |-> f.author, image_url |-> f.image_url,
     last_opened_date |-> f.last_opened_date]

\* serde's view of ExportItem: checked is skipped
SerItem(e) == [last_updated_time |-> e.last_updated_time, info |-> SerBook(e.info)]

\* variant: an item read from the file starts as checked
DeItemChecked(f) ==
    [info |-> DeBook(f.info), last_updated_time |-> f.last_updated_time,
     checked |-> TRUE]

\* checked takes its default, false, when an item is parsed
DeItem(f) ==
    [info |-> DeBook(f.info), last_updated_time |-> f.last_updated_time,
     checked |-> FALSE]

\* variant: only the entries checked in this run are written
ToTomlCheckedOnly(bs) ==
    LET keep == {k \in 1..Len(bs) : bs[k].checked}
        nth(n) == CHOOSE k \in keep : Cardinality({j \in keep : j < k}) = n - 1
    IN  [n \in 1..Cardinality(keep) |-> SerItem(bs[nth(n)])]

\* toml::to_string of an ExportIndex
ToToml(bs) == [k \in 1..Len(bs) |-> SerItem(bs[k])]

\* variant: the entries are read back in reverse order
FromTomlReversed(es) == [k \in 1..Len(es) |-> DeItem(es[Len(es) + 1 - k])]

\* variant: of the entries with one ASIN only the first is read
FromTomlFirstPerAsin(es) ==
    LET keep == {k \in 1..Len(es) :
                   \A j \in 1..(k - 1) : es[j].info.asin # es[k].info.asin}
        nth(n) == CHOOSE k \in keep : Cardinality({j \in keep : j < k}) = n - 1
    IN  [n \in 1..Cardinality(keep) |-> DeItem(es[nth(n)])]

\* toml::from_str into an ExportIndex
FromToml(es) == [k \in 1..Len(es) |-> DeItem(es[k])]

\* the index file: missing, unparseable, or the entries it lists
NoFile == [kind |-> "absent", entries |-> <<>>]

BadFile == [kind |-> "corrupt", entries |-> <<>>]

TomlFile(es) == [kind |-> "toml", entries |-> es]

\* index files left by earlier runs (or edited by hand) before the first run:
\* two entries may share an ASIN, no two entries are the same
InitialFiles ==
    {NoFile, BadFile} \cup
    {TomlFile([k \in 1..Len(bs) |->
                 SerItem([info |-> bs[k], last_updated_time |-> 0, checked |-> FALSE])])
       : bs \in {sq \in SeqsUpTo(IndexedBooks, MaxIndex) :
                   \A m, n \in 1..Len(sq) : m # n => sq[m] # sq[n]}}

(***************************************************************************)
(* prompt_user (export.rs 323-343): one line of standard input.            *)
(***************************************************************************)
Whitespace == {" ", "\n"}

RECURSIVE TrimStart(_)
TrimStart(s) ==
    IF s # <<>> /\ Head(s) \in Whitespace THEN TrimStart(Tail(s)) ELSE s

RECURSIVE TrimEnd(_)
TrimEnd(s) ==
    IF s # <<>> /\ s[Len(s)] \in Whitespace
    THEN TrimEnd(SubSeq(s, 1, Len(s) - 1)) ELSE s

Trim(s) == TrimEnd(TrimStart(s))

LowerChar(c) == CASE c = "Y" -> "y" [] c = "N" -> "n" [] OTHER -> c

\* variant: the case of the letters is kept
ToLowercaseKeepsCase(s) == s

ToLowercase(s) == [k \in 1..Len(s) |-> LowerChar(s[k])]

\* lines read_line can deliver; the empty one is end of input (Ok(0))
EndOfInput == <<>>

InputLines ==
    {<<"y", "\n">>, <<"n", "\n">>, <<" ", "Y", " ", "\n">>, <<"N", "\n">>,
     <<"y", "e", "s", "\n">>, <<"\n">>, EndOfInput}

\* what prompt_user makes of a line: "yes", "no" or "again"
ParseAnswer(line) ==
    LET input == ToLowercase(Trim(line)) IN
    IF input = <<"y">> THEN "yes"
    ELSE IF input = <<"n">> THEN "no"
    ELSE "again"

\* the four questions check_book puts to prompt_user
QFetchLatest == "Do you want to fetch the latest data for this book?"

QUpdateMeta == "Do you want to update the indexed metadata?"

QFetchBook == "Do you want to fetch the book data?"

QAddBook == "Do you want to add the book to the index?"

(***************************************************************************)
(* State.                                                                  *)
(***************************************************************************)
VARIABLES
    pc,               \* where the run stands inside export_async
    runs_left,        \* number of runs the user still starts
    library,          \* what the Kindle notebook page lists (upstream)
    disk,             \* the index file index.toml in the export target
    artifacts,        \* titles of the markdown files in the export target
    now,              \* last reading of the wall clock, in whole seconds
    book_library,     \* export_async: the listing get_books returned
    books,            \* ExportIndex.books of the loaded index
    i,                \* export_async: position of the for loop in the listing
    current_datetime, \* check_book: the time taken at the start of the call
    question,         \* check_book: the question prompt_user is waiting on
    typos_left,       \* number of lines that are no answer the user still types
    typed,            \* history: the lines the latest prompt_user call has read
    call,             \* history: the check_book call in progress
    calls,            \* history: the check_book calls of this run that returned
    reported,         \* history: entries warn_unchecked_books logged this run
    events,           \* history: collaborator and index operations of this run
    disk0,            \* history: the index file when this run started
    prev              \* history: summary of the previous run

vars ==
    <<pc, runs_left, library, disk, artifacts, now, book_library, books, i,
      current_datetime, question, typos_left, typed, call, calls, reported,
      events, disk0, prev>>

envVars == <<library, now>>

runVars == <<runs_left, typos_left, disk0, prev>>

NoCall == [book |-> BaseBook("A1"), pre |-> <<>>, cls |-> "none", warned |-> FALSE,
           asked |-> <<>>, time |-> 0]

NoRun == [library |-> <<>>, calls |-> <<>>, reported |-> <<>>,
          outcome |-> "none", disk0 |-> NoFile]

Start ==
    /\ pc = "idle"
    /\ disk \in InitialFiles
    /\ artifacts = {}
    /\ now = 1
    /\ book_library = <<>>
    /\ books = <<>>
    /\ i = 1
    /\ current_datetime = 0
    /\ question = ""
    /\ typed = <<>>
    /\ call = NoCall
    /\ calls = <<>>
    /\ reported = <<>>
    /\ events = <<>>
    /\ disk0 = NoFile
    /\ prev = NoRun

\* one run, over any listing, with a user who types answers only
Init ==
    /\ Start
    /\ runs_left = 1
    /\ typos_left = 0
    /\ library \in Listings

\* consecutive runs over a listing that stays as it is
InitRuns ==
    /\ Start
    /\ runs_left = MaxRuns
    /\ typos_left = 0
    /\ library \in FollowedListings

\* the listings of one record
PromptListings == {<<b>> : b \in BooksChanging("last_opened_date")}

\* one run over one record, with a user who also types lines that are no answer
InitPrompt ==
    /\ Start
    /\ runs_left = 1
    /\ typos_left = MaxTypos
    /\ library \in PromptListings

\* one run, with a user who also types lines that are no answer, over a
\* listing as the library gives it: any length, no ASIN twice
InitLive ==
    /\ Start
    /\ runs_left = 1
    /\ typos_left = MaxTypos
    /\ library \in {bs \in SeqsUpTo({BaseBook(a) : a \in Asins}, MaxListing) :
                       \A m, n \in 1..Len(bs) : m # n => bs[m].asin # bs[n].asin}

(***************************************************************************)
(* export_async (export.rs 47-85).                                         *)
(***************************************************************************)
\* how the run ended: "done", "panicked", or the operation that returned Err
Outcome ==
    IF pc # "failed" THEN pc
    ELSE IF events = <<>> THEN "get_books"
    ELSE events[Len(events)][1]

\* what the run that just ended leaves for the history of the next one
RunSummary ==
    [library |-> book_library, calls |-> calls, reported |-> reported,
     outcome |-> Outcome, disk0 |-> disk0]

\* line 55: client.get_books(), at the start of a run
GetBooks ==
    /\ pc \in {"idle", "done", "failed", "panicked"}
    /\ runs_left > 0
    /\ runs_left' = runs_left - 1
    /\ prev' = IF pc = "idle" THEN NoRun ELSE RunSummary
    /\ disk0' = disk
    /\ books' = <<>>
    /\ i' = 1
    /\ call' = NoCall
    /\ calls' = <<>>
    /\ reported' = <<>>
    /\ events' = <<>>
    /\ question' = ""
    /\ \E ok \in BOOLEAN :
         IF ok THEN book_library' = library /\ pc' = "load"
               ELSE book_library' = <<>> /\ pc' = "failed"
    /\ typed' = <<>>
    /\ UNCHANGED <<envVars, typos_left, disk, artifacts, current_datetime>>

\* variant: a missing index file is created, empty, when the index is loaded
LoadOrDefaultCreatesFile ==
    /\ pc = "load"
    /\ CASE disk.kind = "absent"  -> books' = <<>> /\ pc' = "loop"
         [] disk.kind = "toml"    -> books' = FromToml(disk.entries) /\ pc' = "loop"
         [] disk.kind = "corrupt" -> books' = books /\ pc' = "failed"
    /\ disk' = IF disk.kind = "absent" THEN TomlFile(<<>>) ELSE disk
    /\ events' = Append(events, <<"load", 0>>)
    /\ typed' = <<>>
    /\ UNCHANGED <<envVars, runVars, artifacts, book_library, i,
                   current_datetime, question, call, calls, reported>>

\* variant: an index file that does not parse is taken for an empty index
LoadOrDefaultDiscardsCorrupt ==
    /\ pc = "load"
    /\ CASE disk.kind = "absent"  -> books' = <<>> /\ pc' = "loop"
         [] disk.kind = "toml"    -> books' = FromToml(disk.entries) /\ pc' = "loop"
         [] disk.kind = "corrupt" -> books' = <<>> /\ pc' = "loop"
    /\ events' = Append(events, <<"load", 0>>)
    /\ typed' = <<>>
    /\ UNCHANGED <<envVars, runVars, disk, artifacts, book_library, i,
                   current_datetime, question, call, calls, reported>>

\* lines 166-175: ExportIndex::load_or_default
LoadOrDefault ==
    /\ pc = "load"
    /\ CASE disk.kind = "absent"  -> books' = <<>> /\ pc' = "loop"
         [] disk.kind = "toml"    -> books' = FromToml(disk.entries) /\ pc' = "loop"
         [] disk.kind = "corrupt" -> books' = books /\ pc' = "failed"
    /\ events' = Append(events, <<"load", 0>>)
    /\ typed' = <<>>
    /\ UNCHANGED <<envVars, runVars, disk, artifacts, book_library, i,
                   current_datetime, question, call, calls, reported>>

(***************************************************************************)
(* ExportIndex::check_book (export.rs 196-289).                            *)
(***************************************************************************)
\* lines 198-199: Local::now().to_rfc2822() keeps whole seconds; the clock
\* does not run backwards and may or may not have moved since the last reading
LocalNow(last) == {t \in {last, last + 1} : t <= MaxClock}

\* variant: the scan goes on to the last entry with the book's ASIN
LastMatch(bs, asin) ==
    IF \E k \in 1..Len(bs) : bs[k].info.asin = asin
    THEN CHOOSE k \in 1..Len(bs) :
           /\ bs[k].info.asin = asin
           /\ \A j \in (k + 1)..Len(bs) : bs[j].info.asin # asin
    ELSE 0

\* lines 203-207: the scan stops at the first entry with the book's ASIN
\* (0: no entry has it)
FirstMatch(bs, asin) ==
    IF \E k \in 1..Len(bs) : bs[k].info.asin = asin
    THEN CHOOSE k \in 1..Len(bs) :
           /\ bs[k].info.asin = asin
           /\ \A j \in 1..(k - 1) : bs[j].info.asin # asin
    ELSE 0

\* variant: the flag is never set
MarkCheckedNever(bs, k) == bs

\* line 214: indexed_book.checked = true
MarkChecked(bs, k) == [bs EXCEPT ![k].checked = TRUE]

\* variant: the updated entry is taken out of its place and put at the end
UpdateItemMovesToEnd(bs, k, book, t) ==
    LET rest == [n \in 1..(Len(bs) - 1) |-> IF n < k THEN bs[n] ELSE bs[n + 1]]
    IN  Append(rest, [bs[k] EXCEPT !.info = book, !.last_updated_time = t])

\* variant: every entry with the book's ASIN takes the observed book and the time
UpdateItemAllMatches(bs, k, book, t) ==
    [n \in 1..Len(bs) |->
        IF bs[n].info.asin = book.asin
        THEN [bs[n] EXCEPT !.info = book, !.last_updated_time = t]
        ELSE bs[n]]

\* variant: the record is replaced and the time is left as it was
UpdateItemKeepsTime(bs, k, book, t) == [bs EXCEPT ![k].info = book]

\* lines 242-243 and 249-250: the entry takes the observed book and the time
UpdateItem(bs, k, book, t) ==
    [bs EXCEPT ![k].info = book, ![k].last_updated_time = t]

\* variant: the item is put in front of the list
PushItemFront(bs, item) == <<item>> \o bs

\* lines 277 and 285: self.books.push(item)
PushItem(bs, item) == Append(bs, item)

\* variant: the book is added to the index whatever the answer to the last question
AfterAnswerAddsAnyway(q, yes) ==
    CASE q = QFetchLatest ->
           IF yes THEN [done |-> TRUE, ret |-> TRUE, write |-> TRUE, next |-> ""]
                  ELSE [done |-> FALSE, ret |-> FALSE, write |-> FALSE, next |-> QUpdateMeta]
      [] q = QUpdateMeta ->
           [done |-> TRUE, ret |-> FALSE, write |-> yes, next |-> ""]
      [] q = QFetchBook ->
           IF yes THEN [done |-> TRUE, ret |-> TRUE, write |-> TRUE, next |-> ""]
                  ELSE [done |-> FALSE, ret |-> FALSE, write |-> FALSE, next |-> QAddBook]
      [] q = QAddBook ->
           [done |-> TRUE, ret |-> FALSE, write |-> TRUE, next |-> ""]

\* variant: the metadata is updated whatever the answer to the last question
AfterAnswerUpdatesAnyway(q, yes) ==
    CASE q = QFetchLatest ->
           IF yes THEN [done |-> TRUE, ret |-> TRUE, write |-> TRUE, next |-> ""]
                  ELSE [done |-> FALSE, ret |-> FALSE, write |-> FALSE, next |-> QUpdateMeta]
      [] q = QUpdateMeta ->
           [done |-> TRUE, ret |-> FALSE, write |-> TRUE, next |-> ""]
      [] q = QFetchBook ->
           IF yes THEN [done |-> TRUE, ret |-> TRUE, write |-> TRUE, next |-> ""]
                  ELSE [done |-> FALSE, ret |-> FALSE, write |-> FALSE, next |-> QAddBook]
      [] q = QAddBook ->
           [done |-> TRUE, ret |-> FALSE, write |-> yes, next |-> ""]

\* variant: a yes to the metadata question returns without updating the entry
AfterAnswerDropsUpdate(q, yes) ==
    CASE q = QFetchLatest ->
           IF yes THEN [done |-> TRUE, ret |-> TRUE, write |-> TRUE, next |-> ""]
                  ELSE [done |-> FALSE, ret |-> FALSE, write |-> FALSE, next |-> QUpdateMeta]
      [] q = QUpdateMeta ->
           [done |-> TRUE, ret |-> FALSE, write |-> FALSE, next |-> ""]
      [] q = QFetchBook ->
           IF yes THEN [done |-> TRUE, ret |-> TRUE, write |-> TRUE, next |-> ""]
                  ELSE [done |-> FALSE, ret |-> FALSE, write |-> FALSE, next |-> QAddBook]
      [] q = QAddBook ->
           [done |-> TRUE, ret |-> FALSE, write |-> yes, next |-> ""]

\* lines 241-253 and 276-288: what check_book does with the answer to a question:
\* return (ret) or ask the next question, after writing the index or not
AfterAnswer(q, yes) ==
    CASE q = QFetchLatest ->
           IF yes THEN [done |-> TRUE, ret |-> TRUE, write |-> TRUE, next |-> ""]
                  ELSE [done |-> FALSE, ret |-> FALSE, write |-> FALSE, next |-> QUpdateMeta]
      [] q = QUpdateMeta ->
           [done |-> TRUE, ret |-> FALSE, write |-> yes, next |-> ""]
      [] q = QFetchBook ->
           IF yes THEN [done |-> TRUE, ret |-> TRUE, write |-> TRUE, next |-> ""]
                  ELSE [done |-> FALSE, ret |-> FALSE, write |-> FALSE, next |-> QAddBook]
      [] q = QAddBook ->
           [done |-> TRUE, ret |-> FALSE, write |-> yes, next |-> ""]

\* variant: a write always pushes a new item, also for a book that has an entry
WriteIndexAlwaysPushes(bs, book, t) == PushItem(bs, NewItem(book, t))

\* the index after a write: the matched entry is updated in place, a book
\* without an entry is pushed
WriteIndex(bs, book, t) ==
    LET k == FirstMatch(bs, book.asin) IN
    IF k # 0 THEN UpdateItem(bs, k, book, t) ELSE PushItem(bs, NewItem(book, t))

\* variant: the loop fetches the book whatever check_book returned
ReturnAlwaysFetches(c, ret) ==
    /\ calls' = Append(calls, [book |-> c.book, pre |-> c.pre, cls |-> c.cls,
                               warned |-> c.warned, asked |-> c.asked, ret |-> ret,
                               time |-> c.time])
    /\ call' = NoCall
    /\ question' = ""
    /\ pc' = "fetch"
    /\ i' = i

\* variant: a book whose markdown file exists already is not fetched again
ReturnSkipsExported(c, ret) ==
    LET fetch == ret /\ c.book.title \notin artifacts IN
    /\ calls' = Append(calls, [book |-> c.book, pre |-> c.pre, cls |-> c.cls,
                               warned |-> c.warned, asked |-> c.asked, ret |-> fetch,
                               time |-> c.time])
    /\ call' = NoCall
    /\ question' = ""
    /\ pc' = IF fetch THEN "fetch" ELSE "loop"
    /\ i' = IF fetch THEN i ELSE i + 1

\* check_book returns ret to the loop of export_async (lines 63-73)
Return(c, ret) ==
    /\ calls' = Append(calls, [book |-> c.book, pre |-> c.pre, cls |-> c.cls,
                               warned |-> c.warned, asked |-> c.asked, ret |-> ret,
                               time |-> c.time])
    /\ call' = NoCall
    /\ question' = ""
    /\ pc' = IF ret THEN "fetch" ELSE "loop"
    /\ i' = IF ret THEN i ELSE i + 1

\* lines 196-236 and 256-273: check_book up to its return or its first question
CheckBook ==
    /\ pc = "loop"
    /\ i <= Len(book_library)
    /\ \E t \in LocalNow(now) :
         LET book == book_library[i]
             k == FirstMatch(books, book.asin)
         IN  /\ now' = t
             /\ current_datetime' = t
             /\ events' = Append(events, <<"check", i>>)
             /\ IF k = 0
                THEN /\ books' = books
                     /\ call' = [book |-> book, pre |-> books, cls |-> "NotFound",
                                 warned |-> FALSE, asked |-> <<>>, time |-> t]
                     /\ question' = QFetchBook
                     /\ pc' = "prompt"
                     /\ UNCHANGED <<calls, i>>
                ELSE /\ books' = MarkChecked(books, k)
                     /\ IF BookEq(books[k].info, book)
                        THEN Return([book |-> book, pre |-> books,
                                     cls |-> "FoundUnchanged",
                                     warned |-> books[k].checked, asked |-> <<>>,
                                     time |-> t], FALSE)
                        ELSE /\ call' = [book |-> book, pre |-> books,
                                         cls |-> "FoundChanged",
                                         warned |-> books[k].checked, asked |-> <<>>,
                                         time |-> t]
                             /\ question' = QFetchLatest
                             /\ pc' = "prompt"
                             /\ UNCHANGED <<calls, i>>
    /\ typed' = <<>>
    /\ UNCHANGED <<library, runVars, disk, artifacts, book_library, reported>>

\* the lines end with an answer: the prompt_user call that read them returned
Answered(lines) == lines # <<>> /\ ParseAnswer(lines[Len(lines)]) # "again"

\* lines 324-343: prompt_user reads one line; lines 241-253 and 276-288: on an
\* accepted answer check_book goes on
PromptUser ==
    /\ pc = "prompt"
    /\ \/ \* read_line fails: .expect("error reading from stdin") panics
          /\ pc' = "panicked"
          /\ UNCHANGED <<books, question, call, calls, i, typos_left, typed>>
       \/ \E line \in InputLines :
            LET answer == ParseAnswer(line)
                yes == (answer = "yes")
                then == AfterAnswer(question, yes)
                asked == Append(call.asked, <<question, yes>>)
            IN  /\ typed' = IF Answered(typed) THEN <<line>> ELSE Append(typed, line)
                /\ IF answer = "again"
                   THEN \* line 340: the message, and the loop asks again
                        /\ typos_left > 0
                        /\ typos_left' = typos_left - 1
                        /\ UNCHANGED <<pc, books, question, call, calls, i>>
                   ELSE /\ typos_left' = typos_left
                        /\ books' = IF then.write
                                    THEN WriteIndex(books, call.book, current_datetime)
                                    ELSE books
                        /\ IF then.done
                           THEN Return([call EXCEPT !.asked = asked], then.ret)
                           ELSE /\ call' = [call EXCEPT !.asked = asked]
                                /\ question' = then.next
                                /\ UNCHANGED <<pc, calls, i>>
    /\ UNCHANGED <<envVars, runs_left, disk0, prev, disk, artifacts, book_library,
                   current_datetime, reported, events>>

(***************************************************************************)
(* The rest of the loop body and the end of the run (export.rs 62-85).     *)
(***************************************************************************)
\* variant: a book whose annotations cannot be fetched is passed over
GetAnnotationsSkipsFailure ==
    /\ pc = "fetch"
    /\ events' = Append(events, <<"fetch", i>>)
    /\ \E ok \in BOOLEAN :
         /\ pc' = IF ok THEN "render" ELSE "loop"
         /\ i' = IF ok THEN i ELSE i + 1
    /\ typed' = <<>>
    /\ UNCHANGED <<envVars, runVars, disk, artifacts, book_library, books,
                   current_datetime, question, call, calls, reported>>

\* line 64: client.get_annotations(book) for a book check_book said to fetch
GetAnnotations ==
    /\ pc = "fetch"
    /\ events' = Append(events, <<"fetch", i>>)
    /\ \E ok \in BOOLEAN : pc' = IF ok THEN "render" ELSE "failed"
    /\ typed' = <<>>
    /\ UNCHANGED <<envVars, runVars, disk, artifacts, book_library, books, i,
                   current_datetime, question, call, calls, reported>>

\* variant: the index is saved right after each rendered book
ExportDataToMarkdownThenSave ==
    /\ pc = "render"
    /\ events' = events \o <<(<<"render", i>>), (<<"save", 0>>)>>
    /\ \E result \in {"ok", "create_failed", "write_failed"} :
         /\ artifacts' = IF result = "create_failed" THEN artifacts
                         ELSE artifacts \cup {book_library[i].title}
         /\ disk' = IF result = "ok" THEN TomlFile(ToToml(books)) ELSE disk
         /\ pc' = IF result = "ok" THEN "loop" ELSE "failed"
         /\ i' = IF result = "ok" THEN i + 1 ELSE i
    /\ typed' = <<>>
    /\ UNCHANGED <<envVars, runVars, book_library, books,
                   current_datetime, question, call, calls, reported>>

\* lines 68-71 and 87-151: export_data_to_markdown writes <title>.md; creating
\* the file can fail, and so can a write after the file was created
ExportDataToMarkdown ==
    /\ pc = "render"
    /\ events' = Append(events, <<"render", i>>)
    /\ \E result \in {"ok", "create_failed", "write_failed"} :
         /\ artifacts' = IF result = "create_failed" THEN artifacts
                         ELSE artifacts \cup {book_library[i].title}
         /\ pc' = IF result = "ok" THEN "loop" ELSE "failed"
         /\ i' = IF result = "ok" THEN i + 1 ELSE i
    /\ typed' = <<>>
    /\ UNCHANGED <<envVars, runVars, disk, book_library, books,
                   current_datetime, question, call, calls, reported>>

\* variant: every entry is logged, checked or not
UncheckedAll(bs) == [k \in 1..Len(bs) |-> bs[k]]

\* the entries warn_unchecked_books logs, in index order
RECURSIVE Unchecked(_)
Unchecked(bs) ==
    IF bs = <<>> THEN <<>>
    ELSE IF ~Head(bs).checked THEN <<Head(bs)>> \o Unchecked(Tail(bs))
    ELSE Unchecked(Tail(bs))

\* variant: after the report the run goes on to close the client, without saving
WarnUncheckedBooksSkipsSave ==
    /\ pc = "loop"
    /\ i > Len(book_library)
    /\ reported' = Unchecked(books)
    /\ events' = Append(events, <<"warn", 0>>)
    /\ pc' = "close"
    /\ typed' = <<>>
    /\ UNCHANGED <<envVars, runVars, disk, artifacts, book_library, books, i,
                   current_datetime, question, call, calls>>

\* lines 75-76 and 292-298: after the last book, warn_unchecked_books
WarnUncheckedBooks ==
    /\ pc = "loop"
    /\ i > Len(book_library)
    /\ reported' = Unchecked(books)
    /\ events' = Append(events, <<"warn", 0>>)
    /\ pc' = "save"
    /\ typed' = <<>>
    /\ UNCHANGED <<envVars, runVars, disk, artifacts, book_library, books, i,
                   current_datetime, question, call, calls>>

\* what a save that fails after File::create leaves: a file cut short, which
\* does not parse or which parses to the first entries only
CutShort(es) == {BadFile} \cup {TomlFile(SubSeq(es, 1, n)) : n \in 1..(Len(es) - 1)}

\* lines 78-79 and 177-182: ExportIndex::save
Save ==
    /\ pc = "save"
    /\ events' = Append(events, <<"save", 0>>)
    /\ \/ disk' = TomlFile(ToToml(books)) /\ pc' = "close"
       \/ disk' = disk /\ pc' = "failed"
       \/ disk' \in CutShort(ToToml(books)) /\ pc' = "failed"
    /\ typed' = <<>>
    /\ UNCHANGED <<envVars, runVars, artifacts, book_library, books, i,
                   current_datetime, question, call, calls, reported>>

\* lines 81-84: client.close()
Close ==
    /\ pc = "close"
    /\ events' = Append(events, <<"close", 0>>)
    /\ \E ok \in BOOLEAN : pc' = IF ok THEN "done" ELSE "failed"
    /\ typed' = <<>>
    /\ UNCHANGED <<envVars, runVars, disk, artifacts, book_library, books, i,
                   current_datetime, question, call, calls, reported>>

Next ==
    \/ GetBooks
    \/ LoadOrDefault
    \/ CheckBook
    \/ PromptUser
    \/ GetAnnotations
    \/ ExportDataToMarkdown
    \/ WarnUncheckedBooks
    \/ Save
    \/ Close

Spec == Init /\ [][Next]_vars

SpecRuns == InitRuns /\ [][Next]_vars

SpecPrompt == InitPrompt /\ [][Next]_vars

\* line 44: export blocks on export_async, the one task of a current-thread
\* runtime: it takes its next step whenever it has one; standard input, after
\* the lines that are no answer, delivers a line to every read
SpecLive == InitLive /\ [][Next]_vars /\ WF_vars(Next)

(***************************************************************************)
(* Properties of one check_book call, read in the states where the call    *)
(* has returned and no later call has begun: books is then the index as    *)
(* the call left it, and the last element of calls describes the call.     *)
(***************************************************************************)
Returned == calls # <<>> /\ call.cls = "none"

Last == calls[Len(calls)]

\* position, in the index the call started from, of the entry the scan stops at
LastK == FirstMatch(Last.pre, Last.book.asin)

\* the answers the policy gave during the call, in order
Answers(c) == [j \in 1..Len(c.asked) |-> c.asked[j][2]]

\* the questions put to the policy during the call, in order
Questions(c) == [j \in 1..Len(c.asked) |-> c.asked[j][1]]

\* the observed id matches an entry and the stored record differs from the observed one
LastChanged == Returned /\ LastK # 0 /\ Last.pre[LastK].info # Last.book

\* the observed id matches no entry
LastNotFound == Returned /\ \A k \in 1..Len(Last.pre) : Last.pre[k].info.asin # Last.book.asin

\* get_annotations was called for the record of the last call
LastFetched == \E n \in 1..Len(events) : events[n] = <<"fetch", Len(calls)>>

\* C1: a record equal to its index entry gives Skip without any question; the
\* entry becomes checked and nothing else in the index changes.
C1_UnchangedSkips ==
    (Returned /\ LastK # 0 /\ Last.pre[LastK].info = Last.book) =>
        /\ Last.ret = FALSE
        /\ Last.asked = <<>>
        /\ books[LastK].checked = TRUE
        /\ books[LastK].info = Last.pre[LastK].info
        /\ books[LastK].last_updated_time = Last.pre[LastK].last_updated_time
        /\ books = [Last.pre EXCEPT ![LastK].checked = TRUE]

C1_Witness ==
    /\ Returned /\ LastK # 0 /\ Last.pre[LastK].info = Last.book
    /\ Last.pre[LastK].checked = FALSE
    /\ Last.ret = FALSE

\* C2: a record with no entry and a yes to the fetch question gives Fetch, no
\* second question, and exactly one new entry: the record, checked.
C2_NewFetched ==
    (LastNotFound /\ Answers(Last) # <<>> /\ Answers(Last)[1] = TRUE) =>
        /\ Last.ret = TRUE
        /\ Questions(Last) = <<QFetchBook>>
        /\ Len(books) = Len(Last.pre) + 1
        /\ SubSeq(books, 1, Len(Last.pre)) = Last.pre
        /\ books[Len(books)].info = Last.book
        /\ books[Len(books)].checked = TRUE
        /\ (Last.pre = <<>> =>
              books = <<[info |-> Last.book, last_updated_time |-> Last.time,
                         checked |-> TRUE]>>)

C2_Witness ==
    /\ LastNotFound /\ Answers(Last) = <<TRUE>>
    /\ Last.pre = <<>>
    /\ Len(books) = 1

\* C3: a record with no entry, no to fetch and no to add gives Skip and leaves
\* the index as it was.
C3_NewDeclined ==
    (LastNotFound /\ Answers(Last) = <<FALSE, FALSE>>) =>
        /\ Last.ret = FALSE
        /\ Questions(Last) = <<QFetchBook, QAddBook>>
        /\ books = Last.pre

C3_Witness ==
    /\ LastNotFound /\ Answers(Last) = <<FALSE, FALSE>>
    /\ Last.pre = <<>>
    /\ books = <<>>

\* C4: a record with no entry, no to fetch and yes to add gives Skip, no fetch,
\* and exactly one appended entry: the record, checked.
C4_NewAddedOnly ==
    (LastNotFound /\ Answers(Last) = <<FALSE, TRUE>>) =>
        /\ Last.ret = FALSE
        /\ ~LastFetched
        /\ pc # "fetch"
        /\ Questions(Last) = <<QFetchBook, QAddBook>>
        /\ Len(books) = Len(Last.pre) + 1
        /\ SubSeq(books, 1, Len(Last.pre)) = Last.pre
        /\ books[Len(books)].info = Last.book
        /\ books[Len(books)].checked = TRUE

C4_Witness ==
    /\ LastNotFound /\ Answers(Last) = <<FALSE, TRUE>>
    /\ Len(books) = Len(Last.pre) + 1
    /\ Last.pre # <<>>

\* C5: a changed record and a yes to the fetch question give Fetch, no second
\* question, and the matched entry holds the observed record, the time of the
\* call and checked = true.
C5_ChangedFetched ==
    (LastChanged /\ Answers(Last) # <<>> /\ Answers(Last)[1] = TRUE) =>
        /\ Last.ret = TRUE
        /\ Questions(Last) = <<QFetchLatest>>
        /\ books[LastK].info = Last.book
        /\ books[LastK].last_updated_time = Last.time
        /\ Last.time = now
        /\ books[LastK].checked = TRUE
        /\ \A k \in 1..Len(Last.pre) : k # LastK => books[k] = Last.pre[k]
        /\ Len(books) = Len(Last.pre)

C5_Witness ==
    /\ LastChanged /\ Answers(Last) = <<TRUE>>
    /\ Last.pre[LastK].last_updated_time < Last.time
    /\ books[LastK].info = Last.book

DifferInOne(a, b) ==
    /\ a.asin = b.asin
    /\ Cardinality({attr \in Attrs : a[attr] # b[attr]}) = 1

\* C8: a record that differs from its entry in any single attribute is put to
\* the policy with the fetch-updated question; it is never skipped silently.
C8_AnyAttributeDetected ==
    /\ (Returned /\ LastK # 0 /\ DifferInOne(Last.pre[LastK].info, Last.book)) =>
          /\ Last.cls = "FoundChanged"
          /\ Last.asked # <<>>
          /\ Questions(Last)[1] = QFetchLatest
    /\ \A attr \in Attrs :
          LET k == FirstMatch(call.pre, call.book.asin) IN
          (call.cls # "none" /\ k # 0 /\ call.pre[k].info[attr] # call.book[attr]) =>
              /\ call.cls = "FoundChanged"
              /\ pc \in {"prompt", "panicked"}
              /\ question \in {QFetchLatest, QUpdateMeta}

C8_Witness ==
    /\ Returned /\ LastK # 0 /\ DifferInOne(Last.pre[LastK].info, Last.book)
    /\ Last.pre[LastK].info.subtitle = None
    /\ Last.book.subtitle # None
    /\ Questions(Last)[1] = QFetchLatest

(***************************************************************************)
(* Properties of consecutive runs: prev describes the run before this one. *)
(***************************************************************************)
Ids(listing) == {listing[j].asin : j \in 1..Len(listing)}

Occurrences(listing, asin) == Cardinality({j \in 1..Len(listing) : listing[j].asin = asin})

InSeq(x, sq) == \E n \in 1..Len(sq) : sq[n] = x

\* warn_unchecked_books has run in this run
PassDone == InSeq(<<"warn", 0>>, events)

\* this run follows a run over the same listing whose save, if reached, did not fail
FollowsRun == prev.outcome \notin {"none", "get_books", "save"} /\ book_library = prev.library

\* the call was for a changed record and the policy said no twice
DeclinedChange(c) ==
    LET k == FirstMatch(c.pre, c.book.asin) IN
    k # 0 /\ c.pre[k].info # c.book /\ Answers(c) = <<FALSE, FALSE>>

\* C7: after no to both questions for a changed record, Skip is returned and the
\* entry keeps its record and time and is checked; the next run over the
\* listing finds the record changed again and asks again.
C7_DeclinedStaysStale ==
    /\ (Returned /\ DeclinedChange(Last)) =>
          /\ Last.ret = FALSE
          /\ books[LastK].info = Last.pre[LastK].info
          /\ books[LastK].last_updated_time = Last.pre[LastK].last_updated_time
          /\ books[LastK].checked = TRUE
          /\ books = [Last.pre EXCEPT ![LastK].checked = TRUE]
    /\ \A j \in 1..Len(calls) :
          (/\ FollowsRun
           /\ j <= Len(prev.calls)
           /\ DeclinedChange(prev.calls[j])
           /\ Occurrences(book_library, book_library[j].asin) = 1) =>
              LET k == FirstMatch(calls[j].pre, calls[j].book.asin) IN
              /\ calls[j].book = prev.calls[j].book
              /\ k # 0
              /\ calls[j].pre[k].info # calls[j].book
              /\ calls[j].cls = "FoundChanged"
              /\ calls[j].asked # <<>>
              /\ Questions(calls[j])[1] = QFetchLatest

C7_Witness ==
    /\ FollowsRun
    /\ prev.outcome = "done"
    /\ Len(calls) >= 1
    /\ DeclinedChange(prev.calls[1])
    /\ Occurrences(book_library, book_library[1].asin) = 1
    /\ calls[1].cls = "FoundChanged"

\* every record of the listing equals the entry the file holds for its id
UpToDate(file, listing) ==
    /\ file.kind = "toml"
    /\ \A j \in 1..Len(listing) :
         LET k == FirstMatch(FromToml(file.entries), listing[j].asin) IN
         k # 0 /\ DeBook(file.entries[k].info) = listing[j]

\* every call of the sequence returned Skip without a question
AllSilentSkips(cs) == \A j \in 1..Len(cs) : cs[j].ret = FALSE /\ cs[j].asked = <<>>

\* C9: two full runs over a listing whose records all equal their entries skip
\* every record without a question; the second run changes no record or time
\* and its save leaves the file as the first save left it.
C9_Idempotent ==
    (/\ prev.outcome = "done"
     /\ UpToDate(prev.disk0, prev.library)
     /\ book_library = prev.library) =>
        /\ Len(prev.calls) = Len(prev.library)
        /\ AllSilentSkips(prev.calls)
        /\ AllSilentSkips(calls)
        /\ call.cls = "none"
        /\ pc \notin {"prompt", "fetch", "render", "panicked"}
        /\ pc \in {"loop", "save", "close", "done"} =>
              /\ Len(books) = Len(disk0.entries)
              /\ \A k \in 1..Len(books) :
                    /\ books[k].info = DeBook(disk0.entries[k].info)
                    /\ books[k].last_updated_time = disk0.entries[k].last_updated_time
        /\ pc \in {"close", "done"} => disk = disk0
        /\ pc = "done" => Len(calls) = Len(book_library)

C9_Witness ==
    /\ prev.outcome = "done"
    /\ UpToDate(prev.disk0, prev.library)
    /\ book_library = prev.library
    /\ Len(book_library) = 2
    /\ pc = "done"
    /\ disk = disk0
    /\ Len(calls) = 2

\* C10: after the pass an entry whose id is in no record of the listing is
\* unchecked, reported, and unchanged; a successful save keeps it in the file as
\* it was; the next run over the listing reports it again.
C10_UncheckedKept ==
    /\ PassDone =>
         \A k \in 1..Len(books) :
            books[k].info.asin \notin Ids(book_library) =>
               /\ books[k].checked = FALSE
               /\ InSeq(books[k], reported)
               /\ disk0.kind = "toml"
               /\ k <= Len(disk0.entries)
               /\ books[k] = DeItem(disk0.entries[k])
               /\ pc \in {"close", "done"} =>
                     /\ disk.kind = "toml"
                     /\ k <= Len(disk.entries)
                     /\ disk.entries[k] = disk0.entries[k]
                     /\ DeBook(disk.entries[k].info) = books[k].info
                     /\ disk.entries[k].last_updated_time = books[k].last_updated_time
    /\ (FollowsRun /\ PassDone) =>
         \A n \in 1..Len(prev.reported) :
            prev.reported[n].info.asin \notin Ids(book_library) =>
               InSeq(prev.reported[n], reported)

C10_Witness ==
    /\ FollowsRun
    /\ prev.outcome = "done"
    /\ prev.reported # <<>>
    /\ book_library # <<>>
    /\ pc = "done"
    /\ InSeq(prev.reported[1], reported)
    /\ \E k \in 1..Len(disk.entries) : DeItem(disk.entries[k]) = prev.reported[1]

(***************************************************************************)
(* Properties of the index over the calls of a run and over runs.          *)
(***************************************************************************)
\* the ASINs of the entries of an index, in index order
IdSeq(bs) == [k \in 1..Len(bs) |-> bs[k].info.asin]

IsPrefix(s, t) == Len(s) <= Len(t) /\ SubSeq(t, 1, Len(s)) = s

\* the index the j-th call of this run left behind
PostOf(j) == IF j < Len(calls) THEN calls[j + 1].pre ELSE books

\* C11: a call leaves every entry at its position (an update replaces the
\* record in place) and puts a new entry after all entries that were there,
\* wherever its record stood in the listing; the ids before a call are a
\* prefix of the ids after it, call after call, from the loaded file on.
C11_OrderPreserved ==
    /\ Returned =>
         LET pre == Last.pre
             post == books
             k == LastK
         IN  /\ IsPrefix(IdSeq(pre), IdSeq(post))
             /\ Len(post) <= Len(pre) + 1
             /\ \A n \in 1..Len(pre) : n # k => post[n] = pre[n]
             /\ k # 0 => Len(post) = Len(pre)
             /\ Len(post) = Len(pre) + 1 =>
                   /\ post[Len(post)].info = Last.book
                   /\ \A n \in 1..Len(pre) : post[n] = pre[n]
    /\ \A j \in 1..(Len(calls) - 1) :
          IsPrefix(IdSeq(calls[j].pre), IdSeq(calls[j + 1].pre))
    /\ (pc \in {"loop", "prompt", "fetch", "render", "save", "close", "done"}
        /\ disk0.kind = "toml") =>
          IsPrefix(IdSeq(FromToml(disk0.entries)), IdSeq(books))

C11_Witness ==
    /\ Returned
    /\ Len(calls) = 2
    /\ calls[1].cls = "NotFound"
    /\ Len(calls[1].pre) = 1
    /\ Len(calls[2].pre) = 2
    /\ calls[2].pre[2].info = calls[1].book
    /\ Last.cls = "FoundChanged"
    /\ LastK = 1
    /\ books[1].info = Last.book
    /\ books[1].last_updated_time = Last.time
    /\ books[2] = calls[2].pre[2]

\* number of entries of the index with the ASIN
EntriesWith(bs, asin) == Cardinality({k \in 1..Len(bs) : bs[k].info.asin = asin})

\* the index bs holds, for every ASIN, at least as many entries as as does
KeepsAll(as, bs) ==
    /\ Len(bs) >= Len(as)
    /\ \A a \in Asins : EntriesWith(bs, a) >= EntriesWith(as, a)

\* the run has loaded the index
Loaded == pc \in {"loop", "prompt", "fetch", "render", "save", "close", "done", "panicked"}
             \/ (pc = "failed" /\ Outcome \in {"fetch", "render", "save", "close"})

EventsOf(kind) == {n \in 1..Len(events) : events[n][1] = kind}

\* the operation <<kind, j>> took place before position n of events
Before(kind, j, n) == \E m \in 1..(n - 1) : events[m] = <<kind, j>>

\* C13: a run that ends well saved the index exactly once; the save comes
\* right after the unchecked report, after every record was checked (and
\* fetched and rendered when check_book said so); no check follows a save and
\* the file changes only by the save.
C13_SavedOnceAtEnd ==
    /\ Cardinality(EventsOf("save")) <= 1
    /\ \A n \in EventsOf("save") :
          /\ n >= 2
          /\ events[n - 1] = <<"warn", 0>>
          /\ \A m \in (n + 1)..Len(events) : events[m][1] = "close"
          /\ Len(calls) = Len(book_library)
          /\ \A j \in 1..Len(book_library) :
                /\ Before("check", j, n)
                /\ calls[j].ret => Before("fetch", j, n) /\ Before("render", j, n)
    /\ pc = "done" => Cardinality(EventsOf("save")) = 1
    /\ (pc # "idle" /\ disk # disk0) => EventsOf("save") # {}

C13_Witness ==
    /\ pc = "done"
    /\ Len(book_library) = 2
    /\ calls[2].ret
    /\ disk # disk0
    /\ events = <<(<<"load", 0>>), (<<"check", 1>>), (<<"check", 2>>), (<<"fetch", 2>>),
                  (<<"render", 2>>), (<<"warn", 0>>), (<<"save", 0>>), (<<"close", 0>>)>>

\* the run ended with an error before it reached save
AbortedBeforeSave ==
    pc = "failed" /\ Outcome \in {"get_books", "load", "fetch", "render"}

\* C14: a run that fails in get_books, in load_or_default, in get_annotations
\* or in the rendering leaves the index file exactly as it was when the run
\* started, whatever it did to the index in memory and whatever it rendered;
\* so does every run for as long as it has not reached save.
C14_AbortKeepsFile ==
    /\ AbortedBeforeSave => disk = disk0
    /\ (pc # "idle" /\ EventsOf("save") = {}) => disk = disk0

C14_Witness ==
    /\ AbortedBeforeSave
    /\ Outcome = "render"
    /\ Len(calls) = 2
    /\ disk0.kind = "toml"
    /\ Len(books) > Len(disk0.entries)
    /\ \E k \in 1..Len(disk0.entries) : books[k].info # DeBook(disk0.entries[k].info)
    /\ artifacts # {}
    /\ disk = disk0

\* C15: an index file that exists and does not parse ends the run in
\* load_or_default: no book is checked, no question asked, nothing fetched,
\* rendered or saved, and the file stays as it was.
C15_CorruptIndexAborts ==
    (pc # "idle" /\ disk0.kind = "corrupt") =>
        /\ pc \in {"load", "failed"}
        /\ (pc = "failed" /\ book_library # <<>>) => Outcome = "load"
        /\ events \in {<<>>, <<(<<"load", 0>>)>>}
        /\ calls = <<>>
        /\ call = NoCall
        /\ question = ""
        /\ books = <<>>
        /\ artifacts = {}
        /\ reported = <<>>
        /\ disk = disk0

C15_Witness ==
    /\ disk0.kind = "corrupt"
    /\ pc = "failed"
    /\ Outcome = "load"
    /\ book_library # <<>>
    /\ disk = BadFile

\* the index with every checked flag false
AllUnchecked(bs) == [k \in 1..Len(bs) |-> [bs[k] EXCEPT !.checked = FALSE]]

\* C16: what load_or_default reads from the file a save has written is the
\* saved index, entry by entry in the same order, with the same record and
\* last_updated_time and with checked false, whatever the flags were and
\* whatever the file held before.
C16_SaveLoadRoundTrip ==
    pc \in {"close", "done"} =>
        /\ disk.kind = "toml"
        /\ Len(FromToml(disk.entries)) = Len(books)
        /\ \A k \in 1..Len(books) :
              /\ FromToml(disk.entries)[k].info = books[k].info
              /\ FromToml(disk.entries)[k].last_updated_time = books[k].last_updated_time
              /\ FromToml(disk.entries)[k].checked = FALSE
        /\ FromToml(disk.entries) = AllUnchecked(books)

C16_Witness ==
    /\ pc = "done"
    /\ disk0.kind = "toml"
    /\ disk # disk0
    /\ Len(books) = 2
    /\ books[1].checked
    /\ ~books[2].checked
    /\ books[1].info.subtitle # None
    /\ books[2].info.subtitle = None
    /\ books[1].last_updated_time # books[2].last_updated_time
    /\ FromToml(disk.entries) = AllUnchecked(books)
    /\ FromToml(disk.entries) # books

\* number of operations <<kind, j>> in events
Count(kind, j) == Cardinality({n \in 1..Len(events) : events[n] = <<kind, j>>})

\* check_book returned false for the j-th book
Skipped(j) == j <= Len(calls) /\ ~calls[j].ret

\* C17: the books are checked in listing order, one after the other;
\* get_annotations and the rendering run for a book exactly when check_book
\* returned true for it, once each, the fetch right after the check and the
\* rendering right after the fetch, before the next book is checked; a book
\* check_book returned false for is neither fetched nor rendered.  Stated on
\* each operation and the one before it, and on the counts of a finished run.
C17_FetchIffDecided ==
    /\ \A j \in 1..Len(calls) : calls[j].book = book_library[j]
    /\ \A n \in 2..Len(events) :
          LET e == events[n]
              p == events[n - 1]
          IN  /\ e[1] = "check" =>
                    /\ e[2] <= Len(book_library)
                    /\ \/ p = <<"load", 0>> /\ e[2] = 1
                       \/ p = <<"check", e[2] - 1>> /\ Skipped(e[2] - 1)
                       \/ p = <<"render", e[2] - 1>>
              /\ e[1] = "fetch" =>
                    /\ p = <<"check", e[2]>>
                    /\ e[2] <= Len(calls)
                    /\ calls[e[2]].ret
              /\ e[1] = "render" => p = <<"fetch", e[2]>>
              /\ e[1] = "warn" =>
                    \/ p = <<"load", 0>> /\ book_library = <<>>
                    \/ p = <<"check", Len(book_library)>> /\ Skipped(Len(book_library))
                    \/ p = <<"render", Len(book_library)>>
    /\ (events # <<>> /\ events[Len(events)][1] = "check"
        /\ Len(calls) = events[Len(events)][2]) =>
          pc = IF Last.ret THEN "fetch" ELSE "loop"
    /\ pc = "done" =>
          /\ Len(calls) = Len(book_library)
          /\ \A j \in 1..Len(calls) :
                /\ Count("check", j) = 1
                /\ Count("fetch", j) = IF calls[j].ret THEN 1 ELSE 0
                /\ Count("render", j) = IF calls[j].ret THEN 1 ELSE 0

C17_Witness ==
    /\ pc = "done"
    /\ Len(calls) = 2
    /\ calls[1].ret
    /\ ~calls[2].ret
    /\ calls[2].asked # <<>>
    /\ events = <<(<<"load", 0>>), (<<"check", 1>>), (<<"fetch", 1>>), (<<"render", 1>>),
                  (<<"check", 2>>), (<<"warn", 0>>), (<<"save", 0>>), (<<"close", 0>>)>>

\* the run ended with the error of get_annotations or of the rendering
FailedOnBook == pc = "failed" /\ Outcome \in {"fetch", "render"}

\* C18: a run in which get_annotations or the rendering fails for a book ends
\* there: the failed operation is the last one of the run, no later book is
\* checked or asked about, nothing is reported as unchecked and the index is
\* not saved.  A fetch that no rendering follows, or a rendering after which
\* the loop does not go on, is the end of a failed run.
C18_FailureEndsRun ==
    /\ FailedOnBook =>
          /\ events[Len(events)][2] = Len(calls)
          /\ i = Len(calls)
          /\ \A n \in EventsOf("check") : events[n][2] <= Len(calls)
          /\ call = NoCall
          /\ question = ""
          /\ reported = <<>>
          /\ EventsOf("warn") = {}
          /\ EventsOf("save") = {}
          /\ EventsOf("close") = {}
          /\ disk = disk0
    /\ \A n \in EventsOf("fetch") :
          IF n = Len(events) THEN pc \in {"render", "failed"}
          ELSE events[n + 1] = <<"render", events[n][2]>>
    /\ \A n \in EventsOf("render") :
          /\ n = Len(events) => pc \in {"loop", "failed"}
          /\ (n = Len(events) /\ pc = "loop") => i = events[n][2] + 1
          /\ n < Len(events) => book_library[events[n][2]].title \in artifacts

C18_Witness ==
    /\ FailedOnBook
    /\ Outcome = "fetch"
    /\ Len(book_library) = 2
    /\ Len(calls) = 1
    /\ book_library[2].asin # book_library[1].asin
    /\ Len(books) > Len(disk0.entries)
    /\ Unchecked(books) # <<>>
    /\ reported = <<>>
    /\ disk = disk0

(***************************************************************************)
(* Properties of an index in which two entries have the same ASIN.         *)
(***************************************************************************)
\* positions of the entries of the index with the ASIN
PositionsOf(bs, asin) == {k \in 1..Len(bs) : bs[k].info.asin = asin}

\* the least of a non-empty set of positions
Least(S) == CHOOSE k \in S : \A j \in S : k <= j

\* C19: when several entries have the ASIN of the book, check_book compares
\* the book with the first of them and writes to that one only: every other
\* entry, the later ones with the same ASIN among them, keeps its record, its
\* time and its checked flag, and the index keeps its length.
C19_FirstMatchOnly ==
    Returned =>
      LET pre == Last.pre
          post == books
          same == PositionsOf(pre, Last.book.asin)
      IN  Cardinality(same) > 1 =>
            /\ Len(post) = Len(pre)
            /\ \A n \in 1..Len(pre) : n # Least(same) => post[n] = pre[n]
            /\ post[Least(same)].checked
            /\ Last.cls = IF pre[Least(same)].info = Last.book
                          THEN "FoundUnchanged" ELSE "FoundChanged"
            /\ (Last.asked # <<>> /\ Answers(Last)[Len(Last.asked)]) =>
                  /\ post[Least(same)].info = Last.book
                  /\ post[Least(same)].last_updated_time = Last.time
            /\ (Last.asked = <<>> \/ ~Answers(Last)[Len(Last.asked)]) =>
                  post[Least(same)] = [pre[Least(same)] EXCEPT !.checked = TRUE]
            /\ PositionsOf(post, Last.book.asin) = same

C19_Witness ==
    /\ Returned
    /\ Cardinality(PositionsOf(Last.pre, Last.book.asin)) = 2
    /\ Last.pre[2].info = Last.book
    /\ Last.cls = "FoundChanged"
    /\ Answers(Last) = <<TRUE>>
    /\ books[1].info = Last.book
    /\ books[1].last_updated_time = Last.time
    /\ books[2] = Last.pre[2]
    /\ ~books[2].checked
    /\ books[2].last_updated_time # books[1].last_updated_time

\* C20 as stated: a call for a book whose ASIN several entries of the index
\* have logs the warning.
C20_AsStated ==
    (Returned /\ Cardinality(PositionsOf(Last.pre, Last.book.asin)) > 1) => Last.warned

\* an earlier call of this run, for the same ASIN, left an entry with it
SeenBefore(j) ==
    \E n \in 1..(j - 1) :
       /\ calls[n].book.asin = calls[j].book.asin
       /\ PositionsOf(PostOf(n), calls[j].book.asin) # {}

\* C20 amended: a call logs the warning exactly when the entry it matches was
\* already matched or created by an earlier call of the same run, that is when
\* the ASIN came up before in the listing; several entries with one ASIN in
\* the index do not by themselves cause it.  The warning changes nothing in
\* the call: it skips at once when the entry equals the book and asks the
\* first question otherwise.
C20_WarnsWhenCheckedTwice ==
    /\ Returned =>
         /\ Last.warned <=> SeenBefore(Len(calls))
         /\ Last.warned =>
               LET k == Least(PositionsOf(Last.pre, Last.book.asin)) IN
               /\ Last.cls \in {"FoundUnchanged", "FoundChanged"}
               /\ Last.pre[k].info = Last.book =>
                     Last.ret = FALSE /\ Last.asked = <<>>
               /\ Last.pre[k].info # Last.book =>
                     /\ Last.asked # <<>>
                     /\ Last.ret = Answers(Last)[1]
    /\ (call.cls # "none" /\ call.warned) =>
          /\ pc \in {"prompt", "panicked"}
          /\ call.cls = "FoundChanged"

C20_Witness ==
    /\ Returned
    /\ Len(calls) = 2
    /\ Last.warned
    /\ ~calls[1].warned
    /\ Cardinality(PositionsOf(Last.pre, Last.book.asin)) = 1
    /\ Last.cls = "FoundChanged"
    /\ Last.ret
    /\ disk0.kind = "toml"
    /\ Len(disk0.entries) = 1

(***************************************************************************)
(* Properties of the checked flags after the pass.                         *)
(***************************************************************************)
\* C21 as stated: after the pass every unchecked entry has an ASIN that is in
\* no record of the listing.
C21_AsStated ==
    PassDone =>
       \A k \in 1..Len(books) :
          ~books[k].checked => books[k].info.asin \notin Ids(book_library)

\* C21 amended: after the pass an unchecked entry has an ASIN that is in no
\* record of the listing, or it stands behind another entry with the same
\* ASIN; the first entry with an observed ASIN is checked and is not reported,
\* and the report lists exactly the unchecked entries.
C21_UncheckedNotObserved ==
    PassDone =>
       /\ \A k \in 1..Len(books) :
             LET same == PositionsOf(books, books[k].info.asin) IN
             /\ ~books[k].checked =>
                   \/ books[k].info.asin \notin Ids(book_library)
                   \/ k # Least(same)
             /\ (books[k].info.asin \in Ids(book_library) /\ k = Least(same)) =>
                   /\ books[k].checked
                   /\ ~InSeq(books[k], reported)
             /\ ~books[k].checked <=> InSeq(books[k], reported)
       /\ (\A a \in Asins : EntriesWith(books, a) <= 1) => C21_AsStated

C21_Witness ==
    /\ PassDone
    /\ Len(books) = 2
    /\ books[1].info.asin # books[2].info.asin
    /\ books[1].info.asin \in Ids(book_library)
    /\ books[1].checked
    /\ books[2].info.asin \notin Ids(book_library)
    /\ ~books[2].checked
    /\ reported = <<books[2]>>

(***************************************************************************)
(* A pass in which every question is answered yes.                         *)
(***************************************************************************)
\* the index load_or_default gave this run
LoadedIndex == IF disk0.kind = "toml" THEN FromToml(disk0.entries) ELSE <<>>

\* every answer given in this run was yes
AlwaysYes ==
    \A j \in 1..Len(calls) : \A n \in 1..Len(calls[j].asked) : calls[j].asked[n][2]

\* the ASINs of the listing that are not in seen, each once, in listing order
RECURSIVE NewIds(_, _)
NewIds(listing, seen) ==
    IF listing = <<>> THEN <<>>
    ELSE IF Head(listing).asin \in seen THEN NewIds(Tail(listing), seen)
    ELSE <<Head(listing).asin>> \o NewIds(Tail(listing), seen \cup {Head(listing).asin})

\* position in the listing of the last record with the ASIN
LastObserved(asin) ==
    CHOOSE j \in 1..Len(book_library) :
       /\ book_library[j].asin = asin
       /\ \A n \in (j + 1)..Len(book_library) : book_library[n].asin # asin

\* C22: when every question is answered yes, a finished pass has skipped
\* exactly the records equal to the entry they matched and fetched all others;
\* the index is the loaded entries in their order followed by one checked
\* entry for each new ASIN in listing order, and the first entry with the ASIN
\* of a record equals that record (the last one observed, should the listing
\* repeat an ASIN).
C22_AlwaysYesPass ==
    (PassDone /\ AlwaysYes) =>
        /\ Len(calls) = Len(book_library)
        /\ \A j \in 1..Len(calls) :
              LET same == PositionsOf(calls[j].pre, calls[j].book.asin) IN
              /\ ~calls[j].ret <=>
                    (same # {} /\ calls[j].pre[Least(same)].info = calls[j].book)
              /\ ~calls[j].ret => calls[j].asked = <<>>
              /\ calls[j].ret => Len(calls[j].asked) = 1
        /\ IdSeq(books) =
              IdSeq(LoadedIndex) \o NewIds(book_library, Ids([k \in 1..Len(LoadedIndex) |-> LoadedIndex[k].info]))
        /\ \A k \in 1..Len(LoadedIndex) :
              \/ books[k].info = LoadedIndex[k].info
              \/ /\ k = Least(PositionsOf(books, books[k].info.asin))
                 /\ books[k].info.asin \in Ids(book_library)
        /\ \A k \in (Len(LoadedIndex) + 1)..Len(books) : books[k].checked
        /\ \A j \in 1..Len(book_library) :
              LET same == PositionsOf(books, book_library[j].asin) IN
              /\ same # {}
              /\ books[Least(same)].info = book_library[LastObserved(book_library[j].asin)]
              /\ Occurrences(book_library, book_library[j].asin) = 1 =>
                    books[Least(same)].info = book_library[j]

C22_Witness ==
    /\ PassDone /\ AlwaysYes
    /\ pc = "done"
    /\ LoadedIndex = <<[info |-> BaseBook("A1"), last_updated_time |-> 0, checked |-> FALSE]>>
    /\ book_library = <<BaseBook("A1"), BaseBook("A2")>>
    /\ [j \in 1..Len(calls) |-> calls[j].ret] = <<FALSE, TRUE>>
    /\ Len(books) = 2
    /\ books[1] = [info |-> BaseBook("A1"), last_updated_time |-> 0, checked |-> TRUE]
    /\ books[2].info = BaseBook("A2")
    /\ books[2].checked

(***************************************************************************)
(* Properties of prompt_user, read from typed: the lines the latest        *)
(* prompt_user call has read, the last of them first when it returned.     *)
(***************************************************************************)
\* the lines that are a yes, a no, or neither
YesLines == {<<"y", "\n">>, <<" ", "Y", " ", "\n">>}

NoLines == {<<"n", "\n">>, <<"N", "\n">>}

OtherLines == {<<"y", "e", "s", "\n">>, <<"\n">>, <<>>}

\* this step is prompt_user reading a line
ReadsLine == pc = "prompt" /\ pc' # "panicked"

\* the lines the prompt_user call in progress has read so far
LinesSoFar ==
    IF typed # <<>> /\ typed[Len(typed)] \in YesLines \cup NoLines THEN <<>> ELSE typed

\* the questions answered so far in the call in progress or just returned
AskedNow == IF call.cls = "none" THEN Last.asked ELSE call.asked

\* C23: the answer to a question is given by the first line read that is y or
\* n once trimmed and lowercased: true for y, false for n.  A line read before
\* it leaves the question, the call, its answers and the index as they were,
\* and the question is asked again.
C23_FirstAnswerDecides ==
    /\ [](typed # <<>> =>
            /\ \A n \in 1..(Len(typed) - 1) : typed[n] \in OtherLines
            /\ typed[Len(typed)] \in OtherLines =>
                  pc \in {"prompt", "panicked"} /\ call.cls # "none"
            /\ typed[Len(typed)] \in YesLines \cup NoLines =>
                  /\ AskedNow # <<>>
                  /\ AskedNow[Len(AskedNow)][2] = (typed[Len(typed)] \in YesLines))
    /\ [][ReadsLine =>
            LET line == typed'[Len(typed')] IN
            /\ typed' # <<>>
            /\ typed' = Append(LinesSoFar, line)
            /\ line \in OtherLines =>
                  UNCHANGED <<pc, question, call, calls, books, i, disk,
                              artifacts, events, reported>>
            /\ line \notin OtherLines =>
                  /\ line \in YesLines \cup NoLines
                  /\ AskedNow' = Append(call.asked, <<question, line \in YesLines>>)
                  /\ (pc' = "prompt" => question' # question)]_vars

C23_Witness ==
    /\ Returned
    /\ typed = <<(<<"y", "e", "s", "\n">>), <<>>, (<<" ", "Y", " ", "\n">>)>>
    /\ Last.asked = <<(<<QFetchBook, TRUE>>)>>
    /\ Last.ret
    /\ Len(books) = Len(Last.pre) + 1

\* C24: whatever standard input delivers at a question that is not an accepted
\* answer, a line that cannot be read or decoded included, prompt_user asks
\* again: the run is never aborted inside prompt_user.
C24_InputNeverAborts == pc # "panicked"

(***************************************************************************)
(* Properties of a run and the run before it over the same listing.        *)
(***************************************************************************)
\* the run before this one saved the index; this run gets the same listing
FollowsSavedRun == prev.outcome \in {"close", "done"} /\ book_library = prev.library

\* the call ended with no to the fetch question and yes to the index question
IndexedOnly(c) == Answers(c) = <<FALSE, TRUE>>

\* C25: a record for which the user declined the fetch and accepted the index
\* write (add for a new record, update for a changed one) in a run that saved
\* the index is skipped without a question by the next run that observes it
\* unchanged, the record being the only one of the listing with its ASIN.
C25_PromptSuppressed ==
    \A j \in 1..Len(calls) :
       (/\ FollowsSavedRun
        /\ IndexedOnly(prev.calls[j])
        /\ Occurrences(book_library, book_library[j].asin) = 1) =>
           /\ calls[j].book = prev.calls[j].book
           /\ calls[j].cls = "FoundUnchanged"
           /\ calls[j].ret = FALSE
           /\ calls[j].asked = <<>>

C25_Witness ==
    /\ FollowsSavedRun
    /\ Len(calls) = 2
    /\ IndexedOnly(prev.calls[1])
    /\ prev.calls[1].cls = "NotFound"
    /\ IndexedOnly(prev.calls[2])
    /\ prev.calls[2].cls = "FoundChanged"
    /\ calls[1].asked = <<>> /\ ~calls[1].ret
    /\ calls[2].asked = <<>> /\ ~calls[2].ret

\* the run before this one ended with the error of get_annotations or of the
\* rendering; this run gets the same listing
FollowsFailedRun == prev.outcome \in {"fetch", "render"} /\ book_library = prev.library

\* C26: after a run that failed in the fetch or the rendering of a record, the
\* index file is the one that run started from: its Fetch decisions left no
\* trace.  The next run over the listing classifies each record that run had
\* decided to fetch as that run did, NotFound or FoundChanged, and begins with
\* the same fetch question, the record being the only one of the listing with
\* its ASIN.
C26_FailedRunAsksAgain ==
    FollowsFailedRun =>
       /\ disk0 = prev.disk0
       /\ \A j \in 1..Len(prev.calls) :
             (prev.calls[j].ret /\ Occurrences(book_library, book_library[j].asin) = 1) =>
                /\ prev.calls[j].cls \in {"NotFound", "FoundChanged"}
                /\ j <= Len(calls) =>
                      /\ calls[j].cls = prev.calls[j].cls
                      /\ calls[j].asked # <<>>
                      /\ Questions(calls[j])[1] = Questions(prev.calls[j])[1]
                      /\ Questions(calls[j])[1] \in {QFetchBook, QFetchLatest}
                /\ (j = Len(calls) + 1 /\ call.cls # "none") =>
                      /\ call.cls = prev.calls[j].cls
                      /\ pc \in {"prompt", "panicked"}

C26_Witness ==
    /\ FollowsFailedRun
    /\ prev.outcome = "render"
    /\ Len(prev.calls) = 2
    /\ prev.calls[1].ret /\ prev.calls[1].cls = "NotFound"
    /\ prev.calls[2].ret /\ prev.calls[2].cls = "FoundChanged"
    /\ prev.library[1].asin # prev.library[2].asin
    /\ prev.library[1].title \in artifacts
    /\ Len(calls) = 2
    /\ calls[1].cls = "NotFound" /\ Questions(calls[1])[1] = QFetchBook
    /\ calls[2].cls = "FoundChanged" /\ Questions(calls[2])[1] = QFetchLatest

(***************************************************************************)
(* check_book as a function: calls of this run and of the run before it    *)
(* are compared two by two.                                                *)
(***************************************************************************)
\* what is known of a returned call: c, and the index it left (post)
Observed(c, post) ==
    [pre |-> c.pre, book |-> c.book, answers |-> Answers(c), questions |-> Questions(c),
     ret |-> c.ret, time |-> c.time, post |-> post]

\* the calls of this run, and the calls of the run before it whose outcome
\* the next call of that run shows
ObservedCalls ==
    {Observed(calls[j], PostOf(j)) : j \in 1..Len(calls)}
       \cup {Observed(prev.calls[j], prev.calls[j + 1].pre) : j \in 1..(Len(prev.calls) - 1)}

\* the two calls left the same index, but for the times they wrote
SameButTimes(x, y) ==
    /\ Len(x.post) = Len(y.post)
    /\ \A k \in 1..Len(x.post) :
          /\ x.post[k].info = y.post[k].info
          /\ x.post[k].checked = y.post[k].checked
          /\ \/ x.post[k].last_updated_time = y.post[k].last_updated_time
             \/ /\ x.post[k].last_updated_time = x.time
                /\ y.post[k].last_updated_time = y.time
                /\ x.post[k].info = x.book

\* C27: two check_book calls that start from equal indexes with equal books
\* and get equal answers return the same decision, ask the same questions in
\* the same order and leave indexes with the same entries in the same order,
\* the same records and flags; only the times they wrote may differ.
C27_Deterministic ==
    Returned =>
       \A x, y \in ObservedCalls :
          (x.pre = y.pre /\ x.book = y.book /\ x.answers = y.answers) =>
             /\ x.ret = y.ret
             /\ x.questions = y.questions
             /\ SameButTimes(x, y)

C27_Witness ==
    /\ Returned
    /\ Len(prev.calls) = 2
    /\ Len(calls) = 1
    /\ Last.pre = prev.calls[1].pre
    /\ Last.pre # <<>>
    /\ Last.book = prev.calls[1].book
    /\ Answers(Last) = <<TRUE>>
    /\ Answers(prev.calls[1]) = <<TRUE>>
    /\ Last.ret /\ prev.calls[1].ret
    /\ Last.time # prev.calls[1].time
    /\ books # prev.calls[2].pre
    /\ SameButTimes(Observed(Last, books), Observed(prev.calls[1], prev.calls[2].pre))

(***************************************************************************)
(* Uniqueness of ASINs in the index.                                       *)
(***************************************************************************)
UniqueIds(bs) == \A m, n \in 1..Len(bs) : m # n => bs[m].info.asin # bs[n].info.asin

\* C28: a call that starts from an index without repeated ASINs leaves one
\* without repeated ASINs, and so does the whole pass from the loaded index to
\* the saved file, also when the listing repeats an ASIN; no call changes the
\* ASIN of an entry.
C28_UniqueIdsPreserved ==
    /\ Returned =>
          /\ UniqueIds(Last.pre) => UniqueIds(books)
          /\ Len(books) >= Len(Last.pre)
          /\ \A k \in 1..Len(Last.pre) : books[k].info.asin = Last.pre[k].info.asin
    /\ (Loaded /\ UniqueIds(LoadedIndex)) =>
          /\ UniqueIds(books)
          /\ (InSeq(<<"save", 0>>, events) /\ disk.kind = "toml") =>
                UniqueIds(FromToml(disk.entries))

C28_Witness ==
    /\ pc = "done"
    /\ UniqueIds(LoadedIndex)
    /\ LoadedIndex # <<>>
    /\ Len(calls) = 2
    /\ calls[1].book.asin = calls[2].book.asin
    /\ calls[1].book # calls[2].book
    /\ calls[1].cls = "NotFound"
    /\ Answers(calls[1]) = <<TRUE>>
    /\ Answers(calls[2]) = <<TRUE>>
    /\ Len(books) = Len(LoadedIndex) + 1
    /\ disk.kind = "toml"
    /\ Len(disk.entries) = Len(books)

(***************************************************************************)
(* What a call leaves alone.                                               *)
(***************************************************************************)
\* a step of the run under way: no new run begins
SameRun == runs_left' = runs_left

\* C29: a check_book call changes at most one entry, the first entry with the
\* book's ASIN or the one it appends; every other entry keeps its record, time
\* and flag; an entry's last_updated_time changes in a call only if the call
\* replaces its record by the observed book; no checked flag goes from true to
\* false during a run.
C29_Frame ==
    /\ [](Returned =>
            LET pre == Last.pre
                k   == LastK
            IN  /\ Len(books) \in {Len(pre), Len(pre) + 1}
                /\ Len(books) > Len(pre) => k = 0
                /\ \A n \in 1..Len(pre) :
                      /\ n # k => books[n] = pre[n]
                      /\ books[n].last_updated_time # pre[n].last_updated_time =>
                            /\ n = k
                            /\ pre[n].info # Last.book
                            /\ books[n].info = Last.book)
    /\ [][SameRun =>
            \A n \in 1..Len(books) :
               books[n].checked => (n <= Len(books') /\ books'[n].checked)]_vars

C29_Witness ==
    /\ Returned
    /\ Len(calls) = 2
    /\ Len(Last.pre) = 2
    /\ Last.pre[1].info.asin = Last.pre[2].info.asin
    /\ Last.pre[1].checked
    /\ Last.book.asin = Last.pre[1].info.asin
    /\ Answers(Last) = <<FALSE, TRUE>>
    /\ books[1].last_updated_time # Last.pre[1].last_updated_time
    /\ books[1].info = Last.book
    /\ books[1].checked
    /\ books[2] = Last.pre[2]
    /\ ~books[2].checked

(***************************************************************************)
(* Termination.                                                            *)
(***************************************************************************)
\* the questions of a call, returned or under way: none for an unchanged
\* record, at most two, the second one only after a no to the first
FewQuestions(c) ==
    /\ Len(c.asked) <= 2
    /\ c.cls = "FoundUnchanged" => c.asked = <<>>
    /\ Len(c.asked) = 2 => ~c.asked[1][2]

\* the run ended because an operation other than the prompts failed
Aborted == pc \in {"failed", "panicked"}

\* the run went through the report of the unchecked entries and the save
Completed == pc = "done" /\ PassDone /\ InSeq(<<"save", 0>>, events)

\* C30: every check_book call asks at most two questions (none for an
\* unchanged record, the second only after a no to the first); a prompt
\* returns with the step that reads an accepted line; and with an input that
\* delivers an accepted line for every question, a run over its listing ends:
\* unless an operation fails and aborts it, it gets to the report of the
\* unchecked entries and to the save.
C30_Terminates ==
    /\ [](/\ \A j \in 1..Len(calls) : FewQuestions(calls[j])
          /\ call.cls # "none" => (FewQuestions(call) /\ Len(call.asked) <= 1)
          /\ pc = "done" => Completed)
    /\ [][(ReadsLine /\ Answered(typed')) =>
             (pc' # "prompt" \/ question' # question)]_vars
    /\ <>(Completed \/ Aborted)

C30_Witness ==
    /\ Completed
    /\ Len(book_library) = 2
    /\ Len(calls) = 2
    /\ typos_left = 0
    /\ Len(calls[1].asked) = 2
    /\ Len(calls[2].asked) = 2
    /\ calls[1].cls = "FoundChanged"
    /\ calls[2].cls = "NotFound"

=============================================================================
